---------------------------- MODULE Spec2Model ----------------------------
(***************************************************************************)
(* Model of the photo-wall server (src/server/index.js, lines 1-339).       *)
(*                                                                         *)
(* The server is a single-threaded event loop.  A handler runs atomically  *)
(* from one real suspension point (an await on file I/O) to the next; an   *)
(* await on an already settled promise only yields to the microtask queue  *)
(* and lets no other handler in, so it does not end an action.  A file     *)
(* operation takes effect in the step in which the handler awaiting it is  *)
(* resumed.  fs.unlink either removes the file or reports ENOENT; both are *)
(* absorbed by deleteFileIfExists.                                         *)
(*                                                                         *)
(* Strings are abstracted: a record id is one of Ids, a file name is the   *)
(* pair <<id, extension>>, and a data URI is a record of the attributes     *)
(* that the code inspects (prefix, regex match, mime, base64 length).      *)
(***************************************************************************)
EXTENDS Integers, Sequences, FiniteSets, TLC

VARIABLES
    MAX_PHOTO_HISTORY,       \* configuration, fixed at start-up
    MAX_CONCURRENT_UPLOADS,  \* configuration, fixed at start-up
    ENABLE_DISK_CACHE,       \* configuration, fixed at start-up
    budget,                  \* number of requests the run admits, fixed at start-up
    photos,                  \* the Ledger: sequence of stored records, newest first
    activeUploads,           \* number of admitted POST handlers
    saveTimer,               \* TRUE iff the debounce timer handle is non-null
    savePending,
    shuttingDown,
    files,                   \* image store: set of existing file names
    disk,                    \* content of the snapshot file photos.json
    timers,                  \* number of scheduled, not yet fired or cleared timeouts
    diskWrites,              \* snapshot writes in flight (sequence of [by, data])
    loader,                  \* start-up: [pc, entries]
    post,                    \* POST /api/photos handlers, by slot
    del,                     \* DELETE /api/photos/:id handlers, by slot; "dropped" records
                             \* the files named by the records the call removed
    exited,                  \* process.exit has run
    log,                     \* the events emitted to the subscribers, in order
    response,                \* the HTTP response sent in the latest step, if any
    arrivals,                \* number of requests received so far
    history,                 \* every record that ever entered the Ledger, newest first
    removals,                \* per id: DELETE calls that removed a record
    evictions,               \* number of records removed by trimPhotoHistory
    serials,                 \* aligned with photos: the place of each record in history,
                             \* counted from the oldest
    subjects                 \* aligned with log: the places in history of the records
                             \* each event is about

config == <<MAX_PHOTO_HISTORY, MAX_CONCURRENT_UPLOADS, ENABLE_DISK_CACHE, budget>>
globals == <<photos, activeUploads, saveTimer, savePending, shuttingDown>>
env == <<files, disk, timers, diskWrites>>
procs == <<loader, post, del, exited>>
ghosts == <<log, response, arrivals, history, removals, evictions, serials, subjects>>
vars == <<config, globals, env, procs, ghosts>>

-----------------------------------------------------------------------------
(* Bounds of the exploration *)

MaxArrivals == 2

Ids == {"a", "b"}

\* an id that holds path separators and .. segments; validatePhotoPayload asks of an
\* id only that it be a string (line 220)
HostileIds == {"../../x"}
HistoryBounds == {1, 2}
UploadLimits == {1, 2}
PostSlots == {1, 2, 3}
DelSlots == {1, 2}

-----------------------------------------------------------------------------
(* Program constants *)

MAX_IMAGE_MB == 3
MAX_IMAGE_BYTES == MAX_IMAGE_MB * 1024 * 1024
UPLOAD_DIR == <<"__dirname", "uploads">>
UPLOAD_URL_BASE == "/uploads"

-----------------------------------------------------------------------------
(* Values *)

NoFile == <<>>

Max(x, y) == IF x >= y THEN x ELSE y
Min(x, y) == IF x <= y THEN x ELSE y

NoImage ==
    [present |-> FALSE, isString |-> FALSE, prefix |-> FALSE,
     wellFormed |-> FALSE, mime |-> "", b64len |-> 0]

DataUri(prefix, wellFormed, mime, b64len) ==
    [present |-> TRUE, isString |-> TRUE, prefix |-> prefix,
     wellFormed |-> wellFormed, mime |-> mime, b64len |-> b64len]

\* an element of images that is not a string, such as a number
NotAString ==
    [present |-> TRUE, isString |-> FALSE, prefix |-> FALSE,
     wellFormed |-> FALSE, mime |-> "", b64len |-> 0]

PngUri == DataUri(TRUE, TRUE, "image/png", 4)
JpegUri == DataUri(TRUE, TRUE, "image/jpeg", 4)
TextUri == DataUri(FALSE, TRUE, "text/plain", 4)
HugeUri == DataUri(TRUE, TRUE, "image/jpeg", 4194308)
EmptyUri == DataUri(TRUE, FALSE, "", 0)

Entry(idIsString, id, storageFile, image) ==
    [idIsString |-> idIsString, id |-> id, storageFile |-> storageFile, image |-> image]

Record(id, storageFile) == [id |-> id, storageFile |-> storageFile]

\* JavaScript values of the optional fields of an entry, as JSON.parse yields them:
\* a number literal too large for a double parses to Infinity
JsUndefined == [type |-> "undefined", finite |-> FALSE, num |-> 0, text |-> ""]
JsNull == [type |-> "object", finite |-> FALSE, num |-> 0, text |-> ""]
JsString(t) == [type |-> "string", finite |-> FALSE, num |-> 0, text |-> t]
JsNumber(n) == [type |-> "number", finite |-> TRUE, num |-> n, text |-> ""]
JsInfinity == [type |-> "number", finite |-> FALSE, num |-> 0, text |-> ""]

\* an entry with its caption, timestamp and rotation: a request body or an element of
\* the snapshot
FullEntry(entry, caption, timestamp, rotation) ==
    [idIsString |-> entry.idIsString, id |-> entry.id, storageFile |-> entry.storageFile,
     image |-> entry.image, caption |-> caption, timestamp |-> timestamp,
     rotation |-> rotation]

\* a stored record with its caption, timestamp and rotation
FullRecord(id, caption, timestamp, rotation, storageFile) ==
    [id |-> id, caption |-> caption, timestamp |-> timestamp, rotation |-> rotation,
     storageFile |-> storageFile]


LogEntry(type, id, status, file) ==
    [type |-> type, id |-> id, status |-> status, file |-> file]

NoResponse == LogEntry("", "", 0, NoFile)

IdlePost == [pc |-> "idle", id |-> "", storageFileName |-> NoFile, removed |-> {}, serial |-> 0]
IdleDel == [pc |-> "idle", id |-> "", file |-> NoFile, dropped |-> {}, gone |-> {}]

-----------------------------------------------------------------------------
(* Pure functions of the server *)

approxBytesFromDataUri(dataUri) == (dataUri.b64len * 3 + 3) \div 4

\* TRUE iff the regular expression matches; the mime is dataUri.mime then
decodeBase64Image(dataUri) == dataUri.wellFormed

\* variant: every image is taken for a PNG
ExtensionPng(mime) == "png"

Extension(mime) == IF mime = "image/png" THEN "png" ELSE "jpg"

FileName(id, extension) == <<id, extension>>

\* the segments between the separators of an id
Segments(id) == IF id = "../../x" THEN <<"..", "..", "x">> ELSE <<id>>

\* path.normalize, as path.join applies it: a .. segment takes the segment before it
\* away, and stays at the root when there is none
RECURSIVE normalize(_, _)
normalize(done, rest) ==
    IF rest = <<>> THEN done
    ELSE normalize(IF Head(rest) = ".."
                   THEN SubSeq(done, 1, Len(done) - 1)
                   ELSE Append(done, Head(rest)),
                   Tail(rest))

\* path.join of a directory and a file name; paths are kept as sequences of segments,
\* the extension of the file last
join(base, fileName) ==
    normalize(<<>>, base \o Segments(fileName[1]) \o <<fileName[2]>>)

fullImagePath(fileName) == join(UPLOAD_DIR, fileName)

buildImageUrl(fileName) == join(<<UPLOAD_URL_BASE>>, fileName)

Undefined == <<>>

\* the object held in photos for the record r (lines 123-131, 274-282); a record kept
\* without caption, timestamp and rotation stands for one with an empty caption and
\* zeroes; author, which is copied unread, is left out
storedPhoto(r) ==
    LET full == "caption" \in DOMAIN r
    IN [id |-> r.id,
        caption |-> IF full THEN r.caption ELSE JsString(""),
        timestamp |-> IF full THEN r.timestamp ELSE JsNumber(0),
        rotation |-> IF full THEN r.rotation ELSE JsNumber(0),
        imageUrl |-> IF r.storageFile # NoFile THEN buildImageUrl(r.storageFile)
                     ELSE Undefined,
        storageFile |-> r.storageFile]

\* variant: the stored object is sent as it is
sanitizePhotoNot(photo) == photo

sanitizePhoto(photo) ==
    [id |-> photo.id, caption |-> photo.caption, timestamp |-> photo.timestamp,
     rotation |-> photo.rotation, imageUrl |-> photo.imageUrl, images |-> <<>>]

\* lines 274-278: the fields of the record built from an accepted submission
createdFields(incoming, now, random) ==
    [caption |-> IF incoming.caption.type = "string" THEN incoming.caption
                 ELSE JsString(""),
     timestamp |-> IF incoming.timestamp.type = "number" THEN incoming.timestamp
                   ELSE JsNumber(now),
     rotation |-> IF incoming.rotation.type = "number" THEN incoming.rotation
                  ELSE JsNumber(random)]

\* lines 123-127: the fields of the record built from a snapshot entry
normalizedFields(entry, now) ==
    [caption |-> IF entry.caption.type = "string" THEN entry.caption ELSE JsString(""),
     timestamp |-> IF entry.timestamp.type = "number" THEN entry.timestamp
                   ELSE JsNumber(now),
     rotation |-> IF entry.rotation.type = "number" THEN entry.rotation
                  ELSE JsNumber(0)]

\* JSON.stringify of a value: a number that is not finite is written as null
stringifyValue(v) == IF v.type = "number" /\ ~v.finite THEN JsNull ELSE v

\* line 175 then line 152: the element of the snapshot written for a stored record,
\* as JSON.parse reads it back
stringifyRecord(r) ==
    FullEntry(Entry(TRUE, r.id, r.storageFile, NoImage), stringifyValue(r.caption),
              stringifyValue(r.timestamp), stringifyValue(r.rotation))

validatePhotoPayload(photo) ==
    IF ~photo.idIsString THEN "Invalid photo payload"
    ELSE IF photo.image.present
         THEN IF ~photo.image.isString \/ ~photo.image.prefix
              THEN "Unsupported image format"
              ELSE IF approxBytesFromDataUri(photo.image) > MAX_IMAGE_BYTES
                   THEN "Image exceeds limit"
                   ELSE ""
         ELSE ""

\* variant: the new record is put at the tail
Push(ps, r) == Append(ps, r)

Unshift(ps, r) == <<r>> \o ps

\* variant: nothing is cut
TrimKeptAll(ps) == ps

TrimKept(ps) ==
    IF Len(ps) <= MAX_PHOTO_HISTORY THEN ps ELSE SubSeq(ps, 1, MAX_PHOTO_HISTORY)

TrimRemoved(ps) ==
    IF Len(ps) <= MAX_PHOTO_HISTORY THEN <<>>
    ELSE SubSeq(ps, MAX_PHOTO_HISTORY + 1, Len(ps))

\* the files that a list of records names (deleteFileIfExists skips null)
FilesOf(ps) == {ps[i].storageFile : i \in 1..Len(ps)} \ {NoFile}

Referenced(ps, name) == \E i \in 1..Len(ps) : ps[i].storageFile = name

Find(ps, id) == ps[CHOOSE i \in 1..Len(ps) :
                     ps[i].id = id /\ \A j \in 1..(i - 1) : ps[j].id # id]

Filter(ps, id) == SelectSeq(ps, LAMBDA r : r.id # id)

\* the records that Filter(ps, id) drops
Matching(ps, id) == SelectSeq(ps, LAMBDA r : r.id = id)

HasId(ps, id) == \E i \in 1..Len(ps) : ps[i].id = id

\* the places in history of the records Filter(ps, id) keeps, and of those it drops
SerialsKept(ps, ss, id) ==
    LET keep[i \in 0..Len(ps)] ==
            IF i = 0 THEN <<>>
            ELSE IF ps[i].id # id THEN Append(keep[i - 1], ss[i]) ELSE keep[i - 1]
    IN keep[Len(ps)]

SerialsGone(ps, ss, id) == {ss[i] : i \in {j \in 1..Len(ps) : ps[j].id = id}}

\* variant: the gate closes one submission late
BusyAboveLimit == activeUploads > MAX_CONCURRENT_UPLOADS

Busy == activeUploads >= MAX_CONCURRENT_UPLOADS

\* variant: the permit is never given back
ReleaseNever(n) == n

\* variant: the permit is given back twice
ReleaseTwice(n) == Max(n - 2, 0)

Release(n) == Max(n - 1, 0)

\* JSON.stringify(photos): what a stored record becomes in the snapshot file
ToEntry(r) == Entry(TRUE, r.id, r.storageFile, NoImage)

Serialize(ps) == [i \in 1..Len(ps) |-> ToEntry(ps[i])]

RemoveAt(s, i) == SubSeq(s, 1, i - 1) \o SubSeq(s, i + 1, Len(s))

-----------------------------------------------------------------------------
(* Inputs *)

Stored(id, extension) == Entry(TRUE, id, FileName(id, extension), NoImage)
Legacy(id, image) == Entry(TRUE, id, NoFile, image)
Submission(id, image) == Entry(TRUE, id, NoFile, image)

Absent == [ok |-> FALSE, entries |-> <<>>]

\* contents of photos.json found at start-up: none, a snapshot written under a
\* looser retention bound, and a snapshot in the older inline-image layout
Snapshots ==
    { Absent,
      [ok |-> TRUE, entries |->
          <<Stored("a", "jpg"), Stored("b", "png"), Stored("a", "png")>>],
      [ok |-> TRUE, entries |->
          <<Legacy("a", PngUri), Entry(FALSE, "", NoFile, NoImage),
            Legacy("b", EmptyUri)>>] }

Payloads ==
    { Submission(id, image) : id \in Ids, image \in {NoImage, PngUri, JpegUri} }
    \cup { Entry(FALSE, "", NoFile, NoImage),
           Submission("a", TextUri), Submission("a", HugeUri),
           Submission("a", EmptyUri) }

\* the number of entries that loadPhotos keeps (line 157)
Valid(entries) == Cardinality({i \in 1..Len(entries) : entries[i].idIsString})

EntryFiles(entries) ==
    {entries[i].storageFile : i \in 1..Len(entries)} \ {NoFile}

-----------------------------------------------------------------------------
(* Initial state: the process has started and loadPhotos is about to run *)

\* lines 50-54: the module-level state, with no handler running
Started ==
    /\ files = EntryFiles(disk.entries)
    /\ photos = <<>>
    /\ activeUploads = 0
    /\ saveTimer = FALSE
    /\ savePending = FALSE
    /\ shuttingDown = FALSE
    /\ timers = 0
    /\ diskWrites = <<>>
    /\ loader = [pc |-> "start", entries |-> <<>>]
    /\ post = [p \in PostSlots |-> IdlePost]
    /\ del = [d \in DelSlots |-> IdleDel]
    /\ exited = FALSE
    /\ log = <<>>
    /\ response = NoResponse
    /\ arrivals = 0
    /\ history = <<>>
    /\ removals = [id \in Ids |-> 0]
    /\ evictions = 0
    /\ serials = <<>>
    /\ subjects = <<>>

Init ==
    /\ MAX_PHOTO_HISTORY \in HistoryBounds
    /\ MAX_CONCURRENT_UPLOADS \in UploadLimits
    /\ ENABLE_DISK_CACHE \in BOOLEAN
    /\ budget = MaxArrivals
    /\ disk \in Snapshots
    /\ Started

\* one configuration, explored one request further: a bound of one record, one
\* upload at a time, persistence enabled and a snapshot of stored records
InitLong ==
    /\ MAX_PHOTO_HISTORY = 1
    /\ MAX_CONCURRENT_UPLOADS = 1
    /\ ENABLE_DISK_CACHE = TRUE
    /\ budget = MaxArrivals + 1
    /\ disk = [ok |-> TRUE,
               entries |-> <<Stored("a", "jpg"), Stored("b", "png"), Stored("a", "png")>>]
    /\ Started

-----------------------------------------------------------------------------
(* Start-up: loadPhotos *)

\* variant: the snapshot is read whatever the mode
LoadStartAlways ==
    /\ ~exited
    /\ loader.pc = "start"
    /\ photos' = <<>>
    /\ loader' = IF disk.ok
                 THEN [pc |-> "entries", entries |-> disk.entries]
                 ELSE [pc |-> "listening", entries |-> <<>>]
    /\ UNCHANGED <<config, activeUploads, saveTimer, savePending, shuttingDown,
                   env, post, del, exited, log, arrivals, history, removals, evictions,
                   serials, subjects>>
    /\ response' = NoResponse

\* lines 144-154: mode check, readFile, JSON.parse
LoadStart ==
    /\ ~exited
    /\ loader.pc = "start"
    /\ photos' = <<>>
    /\ loader' = IF ENABLE_DISK_CACHE /\ disk.ok
                 THEN [pc |-> "entries", entries |-> disk.entries]
                 ELSE [pc |-> "listening", entries |-> <<>>]
    /\ UNCHANGED <<config, activeUploads, saveTimer, savePending, shuttingDown,
                   env, post, del, exited, log, arrivals, history, removals, evictions,
                   serials, subjects>>
    /\ response' = NoResponse

\* lines 102-132 and 156-161: normalizePhotoRecord on the next entry, then push
LoadEntry(writeOk) ==
    /\ ~exited
    /\ loader.pc = "entries"
    /\ loader.entries # <<>>
    /\ LET entry == Head(loader.entries)
           migrate == entry.storageFile = NoFile /\ entry.image.present
                      /\ decodeBase64Image(entry.image)
           name == FileName(entry.id, Extension(entry.image.mime))
           storageFile == IF migrate
                          THEN (IF writeOk THEN name ELSE NoFile)
                          ELSE entry.storageFile
       IN /\ (~migrate => writeOk)
          /\ loader' = [loader EXCEPT !.entries = Tail(@)]
          /\ files' = IF migrate /\ writeOk THEN files \cup {name} ELSE files
          /\ IF entry.idIsString
             THEN /\ photos' = Append(photos, Record(entry.id, storageFile))
                  /\ history' = Append(history, Record(entry.id, storageFile))
                  /\ serials' = Append(serials, Valid(loader.entries))
             ELSE UNCHANGED <<photos, history, serials>>
    /\ UNCHANGED <<config, activeUploads, saveTimer, savePending, shuttingDown,
                   disk, timers, diskWrites, post, del, exited,
                   log, arrivals, removals, evictions, subjects>>
    /\ response' = NoResponse

\* line 163 and lines 337-339: trimPhotoHistory over the loaded list, then listen
LoadTrim ==
    /\ ~exited
    /\ loader.pc = "entries"
    /\ loader.entries = <<>>
    /\ photos' = TrimKept(photos)
    /\ files' = files \ FilesOf(TrimRemoved(photos))
    /\ evictions' = evictions + Len(TrimRemoved(photos))
    /\ serials' = TrimKept(serials)
    /\ loader' = [loader EXCEPT !.pc = "listening"]
    /\ UNCHANGED <<config, activeUploads, saveTimer, savePending, shuttingDown,
                   disk, timers, diskWrites, post, del, exited,
                   log, arrivals, history, removals, subjects>>
    /\ response' = NoResponse

Listening == loader.pc = "listening" /\ ~exited

-----------------------------------------------------------------------------
(* Persistence: scheduleSave, the timer callback, savePhotosToDisk *)

\* variant: every call arms a timer of its own
scheduleSaveAlways ==
    IF ~ENABLE_DISK_CACHE
    THEN UNCHANGED <<savePending, saveTimer, timers>>
    ELSE /\ savePending' = TRUE
         /\ saveTimer' = TRUE
         /\ timers' = timers + 1

\* lines 181-192
scheduleSave ==
    IF ~ENABLE_DISK_CACHE
    THEN UNCHANGED <<savePending, saveTimer, timers>>
    ELSE /\ savePending' = TRUE
         /\ saveTimer' = TRUE
         /\ timers' = IF saveTimer THEN timers ELSE timers + 1

NoSave == UNCHANGED <<savePending, saveTimer, timers>>

-----------------------------------------------------------------------------
(* POST /api/photos *)

FreePost == CHOOSE p \in PostSlots :
                post[p].pc = "idle" /\ \A q \in PostSlots : q < p => post[q].pc # "idle"

\* the event carries sanitizePhoto(storedPhoto): the id and the imageUrl built from the file name
NewPhotoEvent(id, name) == <<LogEntry("new_photo", id, 0, name)>>

\* variant: the finally block gives the permit back and leaves the file where it is
FinallyKeepsFile(p, id, name, ps, au) ==
    /\ post' = [post EXCEPT ![p] = IdlePost]
    /\ activeUploads' = Release(au)

\* lines 296-302: the finally block, run with Ledger ps and counter au
Finally(p, id, name, ps, au) ==
    IF name # NoFile /\ ~Referenced(ps, name)
    THEN /\ post' = [post EXCEPT ![p] =
                        [pc |-> "cleanup", id |-> id, storageFileName |-> name,
                         removed |-> {}, serial |-> 0]]
         /\ activeUploads' = au
    ELSE /\ post' = [post EXCEPT ![p] = IdlePost]
         /\ activeUploads' = Release(au)

\* lines 287-292, then finally
Accept(p, id, name, ps, au) ==
    /\ scheduleSave
    /\ log' = log \o NewPhotoEvent(id, name)
    /\ response' = LogEntry("POST", id, 201, name)
    /\ Finally(p, id, name, ps, au)

\* lines 274-285: build the record, unshift, trimPhotoHistory up to its await
Insert(p, id, name, fs, au) ==
    LET all == Unshift(photos, Record(id, name))
        kept == TrimKept(all)
        removed == TrimRemoved(all)
    IN /\ photos' = kept
       /\ history' = <<Record(id, name)>> \o history
       /\ evictions' = evictions + Len(removed)
       /\ serials' = TrimKept(Unshift(serials, Len(history) + 1))
       /\ IF FilesOf(removed) # {}
          THEN /\ post' = [post EXCEPT ![p] =
                              [pc |-> "trimming", id |-> id, storageFileName |-> name,
                               removed |-> FilesOf(removed), serial |-> Len(history) + 1]]
               /\ activeUploads' = au
               /\ files' = fs
               /\ NoSave
               /\ response' = NoResponse
               /\ UNCHANGED <<log, subjects>>
          ELSE /\ files' = fs
               /\ subjects' = Append(subjects, {Len(history) + 1})
               /\ Accept(p, id, name, kept, au)

\* variant: a rejected submission is announced all the same
RejectAnnounced(p, photo, au) ==
    /\ response' = LogEntry("POST", photo.id, 400, NoFile)
    /\ Finally(p, photo.id, NoFile, photos, au)
    /\ NoSave
    /\ log' = log \o NewPhotoEvent(photo.id, NoFile)
    /\ subjects' = Append(subjects, {})
    /\ UNCHANGED <<photos, files, history, evictions, serials>>

\* variant: a rejected submission schedules a save all the same
RejectSaving(p, photo, au) ==
    /\ response' = LogEntry("POST", photo.id, 400, NoFile)
    /\ Finally(p, photo.id, NoFile, photos, au)
    /\ scheduleSave
    /\ UNCHANGED <<photos, files, log, history, evictions, serials, subjects>>

\* a 4xx answer given inside the try block (lines 256-258, 265-267), then finally
Reject(p, photo, au) ==
    /\ response' = LogEntry("POST", photo.id, 400, NoFile)
    /\ Finally(p, photo.id, NoFile, photos, au)
    /\ NoSave
    /\ UNCHANGED <<photos, files, log, history, evictions, serials, subjects>>

\* lines 244-272: a submission arrives and runs up to its first suspension
PostArrive(photo) ==
    /\ Listening
    /\ arrivals < budget
    /\ \E p \in PostSlots : post[p].pc = "idle"
    /\ arrivals' = arrivals + 1
    /\ LET p == FreePost
           name == FileName(photo.id, Extension(photo.image.mime))
       IN IF Busy
          THEN /\ response' = LogEntry("POST", photo.id, 429, NoFile)
               /\ NoSave
               /\ UNCHANGED <<photos, activeUploads, files, post, log, history, evictions,
                              serials, subjects>>
          ELSE IF validatePhotoPayload(photo) # ""
               THEN Reject(p, photo, activeUploads + 1)
               ELSE IF ~photo.image.present
                    THEN Insert(p, photo.id, NoFile, files, activeUploads + 1)
                    ELSE IF ~decodeBase64Image(photo.image)
                         THEN Reject(p, photo, activeUploads + 1)
                         ELSE /\ post' = [post EXCEPT ![p] =
                                    [pc |-> "writing", id |-> photo.id,
                                     storageFileName |-> name, removed |-> {},
                                     serial |-> 0]]
                              /\ activeUploads' = activeUploads + 1
                              /\ NoSave
                              /\ response' = NoResponse
                              /\ UNCHANGED <<photos, files, log, history, evictions,
                                             serials, subjects>>
    /\ UNCHANGED <<config, shuttingDown, disk, diskWrites, loader, del, exited, removals>>

\* line 271 resumes: the image write has succeeded, or failed leaving a partial file or none
PostWriteDone(p, outcome) ==
    /\ ~exited
    /\ post[p].pc = "writing"
    /\ LET id == post[p].id
           name == post[p].storageFileName
       IN IF outcome = "ok"
          THEN Insert(p, id, name, files \cup {name}, activeUploads)
          ELSE /\ files' = IF outcome = "partial" THEN files \cup {name} ELSE files
               /\ response' = LogEntry("POST", id, 500, NoFile)
               /\ Finally(p, id, name, photos, activeUploads)
               /\ NoSave
               /\ UNCHANGED <<photos, log, history, evictions, serials, subjects>>
    /\ UNCHANGED <<config, shuttingDown, disk, diskWrites, loader, del, exited,
                   arrivals, removals>>

\* line 285 resumes: the unlinks of the evicted records' files have completed
PostTrimDone(p) ==
    /\ ~exited
    /\ post[p].pc = "trimming"
    /\ files' = files \ post[p].removed
    /\ subjects' = Append(subjects, {post[p].serial})
    /\ Accept(p, post[p].id, post[p].storageFileName, photos, activeUploads)
    /\ UNCHANGED <<config, photos, shuttingDown, disk, diskWrites, loader, del, exited,
                   arrivals, history, removals, evictions, serials>>

\* line 299 resumes: the unreferenced image file has been unlinked
PostCleanupDone(p) ==
    /\ ~exited
    /\ post[p].pc = "cleanup"
    /\ files' = files \ {post[p].storageFileName}
    /\ activeUploads' = Release(activeUploads)
    /\ post' = [post EXCEPT ![p] = IdlePost]
    /\ response' = NoResponse
    /\ UNCHANGED <<config, photos, saveTimer, savePending, shuttingDown, disk, timers,
                   diskWrites, loader, del, exited, log, arrivals, history, removals,
                   evictions, serials, subjects>>

-----------------------------------------------------------------------------
(* DELETE /api/photos/:id *)

FreeDel == CHOOSE d \in DelSlots :
               del[d].pc = "idle" /\ \A e \in DelSlots : e < d => del[e].pc # "idle"

\* variant: the deletion is not announced
DeletePhotoEventDropped(id) == <<>>

DeletePhotoEvent(id) == <<LogEntry("delete_photo", id, 0, NoFile)>>

\* lines 316-319
Deleted(id) ==
    /\ scheduleSave
    /\ log' = log \o DeletePhotoEvent(id)
    /\ response' = LogEntry("DELETE", id, 200, NoFile)

\* variant: a record with a file is left in the Ledger while its file is unlinked
DeleteArriveKeeps(id) ==
    /\ Listening
    /\ arrivals < budget
    /\ \E d \in DelSlots : del[d].pc = "idle"
    /\ arrivals' = arrivals + 1
    /\ IF ~HasId(photos, id)
       THEN /\ response' = LogEntry("DELETE", id, 404, NoFile)
            /\ NoSave
            /\ UNCHANGED <<photos, del, log, removals, serials, subjects>>
       ELSE /\ photos' = IF Find(photos, id).storageFile = NoFile
                       THEN Filter(photos, id) ELSE photos
            /\ removals' = [removals EXCEPT ![id] = @ + 1]
            /\ serials' = IF Find(photos, id).storageFile = NoFile
                        THEN SerialsKept(photos, serials, id) ELSE serials
            /\ IF Find(photos, id).storageFile = NoFile
               THEN /\ Deleted(id)
                    /\ subjects' = Append(subjects, SerialsGone(photos, serials, id))
                    /\ UNCHANGED del
               ELSE /\ del' = [del EXCEPT ![FreeDel] =
                                  [pc |-> "unlinking", id |-> id,
                                   file |-> Find(photos, id).storageFile,
                                   dropped |-> FilesOf(Matching(photos, id)),
                                   gone |-> SerialsGone(photos, serials, id)]]
                    /\ NoSave
                    /\ response' = NoResponse
                    /\ UNCHANGED <<log, subjects>>
    /\ UNCHANGED <<config, activeUploads, shuttingDown, files, disk, diskWrites,
                   loader, post, exited, history, evictions>>

\* lines 305-314: a deletion arrives and runs up to its suspension
DeleteArrive(id) ==
    /\ Listening
    /\ arrivals < budget
    /\ \E d \in DelSlots : del[d].pc = "idle"
    /\ arrivals' = arrivals + 1
    /\ IF ~HasId(photos, id)
       THEN /\ response' = LogEntry("DELETE", id, 404, NoFile)
            /\ NoSave
            /\ UNCHANGED <<photos, del, log, removals, serials, subjects>>
       ELSE /\ photos' = Filter(photos, id)
            /\ removals' = [removals EXCEPT ![id] = @ + 1]
            /\ serials' = SerialsKept(photos, serials, id)
            /\ IF Find(photos, id).storageFile = NoFile
               THEN /\ Deleted(id)
                    /\ subjects' = Append(subjects, SerialsGone(photos, serials, id))
                    /\ UNCHANGED del
               ELSE /\ del' = [del EXCEPT ![FreeDel] =
                                  [pc |-> "unlinking", id |-> id,
                                   file |-> Find(photos, id).storageFile,
                                   dropped |-> FilesOf(Matching(photos, id)),
                                   gone |-> SerialsGone(photos, serials, id)]]
                    /\ NoSave
                    /\ response' = NoResponse
                    /\ UNCHANGED <<log, subjects>>
    /\ UNCHANGED <<config, activeUploads, shuttingDown, files, disk, diskWrites,
                   loader, post, exited, history, evictions>>

\* line 314 resumes: the unlink has completed
DeleteUnlinkDone(d) ==
    /\ ~exited
    /\ del[d].pc = "unlinking"
    /\ files' = files \ {del[d].file}
    /\ Deleted(del[d].id)
    /\ subjects' = Append(subjects, del[d].gone)
    /\ del' = [del EXCEPT ![d] = IdleDel]
    /\ UNCHANGED <<config, photos, activeUploads, shuttingDown, disk, diskWrites,
                   loader, post, exited, arrivals, history, removals, evictions, serials>>

-----------------------------------------------------------------------------
(* Timer callback, snapshot writes, shutdown *)

\* variant: the callback leaves savePending set
TimerFireKeepsPending ==
    /\ ~exited
    /\ timers > 0
    /\ timers' = timers - 1
    /\ saveTimer' = FALSE
    /\ savePending' = savePending
    /\ diskWrites' = IF savePending /\ ENABLE_DISK_CACHE
                     THEN Append(diskWrites, [by |-> "timer", data |-> Serialize(photos)])
                     ELSE diskWrites
    /\ response' = NoResponse
    /\ UNCHANGED <<config, photos, activeUploads, shuttingDown, files, disk,
                   procs, log, arrivals, history, removals, evictions, serials, subjects>>

\* lines 186-191 and 172-175: the debounce timer fires
TimerFire ==
    /\ ~exited
    /\ timers > 0
    /\ timers' = timers - 1
    /\ saveTimer' = FALSE
    /\ savePending' = FALSE
    /\ diskWrites' = IF savePending /\ ENABLE_DISK_CACHE
                     THEN Append(diskWrites, [by |-> "timer", data |-> Serialize(photos)])
                     ELSE diskWrites
    /\ response' = NoResponse
    /\ UNCHANGED <<config, photos, activeUploads, shuttingDown, files, disk,
                   procs, log, arrivals, history, removals, evictions, serials, subjects>>

\* variant: savePhotosToDisk lets the error of writeFile through, and the rejection
\* that nobody handles ends the process
DiskWriteDoneThrows(i, ok) ==
    /\ ~exited
    /\ i \in 1..Len(diskWrites)
    /\ disk' = IF ok THEN [ok |-> TRUE, entries |-> diskWrites[i].data] ELSE disk
    /\ diskWrites' = RemoveAt(diskWrites, i)
    /\ exited' = (diskWrites[i].by = "flush" \/ ~ok)
    /\ response' = NoResponse
    /\ UNCHANGED <<config, globals, files, timers, loader, post, del,
                   log, arrivals, history, removals, evictions, serials, subjects>>

\* line 175 resumes: a snapshot write completes or fails (lines 176-178);
\* the write issued by flushPendingSaves is followed by process.exit (line 213)
DiskWriteDone(i, ok) ==
    /\ ~exited
    /\ i \in 1..Len(diskWrites)
    /\ disk' = IF ok THEN [ok |-> TRUE, entries |-> diskWrites[i].data] ELSE disk
    /\ diskWrites' = RemoveAt(diskWrites, i)
    /\ exited' = (diskWrites[i].by = "flush")
    /\ response' = NoResponse
    /\ UNCHANGED <<config, globals, files, timers, loader, post, del,
                   log, arrivals, history, removals, evictions, serials, subjects>>

\* variant: gracefulShutdown does not look at shuttingDown
SignalAgain ==
    /\ ~exited
    /\ shuttingDown' = TRUE
    /\ IF ENABLE_DISK_CACHE
       THEN /\ saveTimer' = FALSE
            /\ timers' = IF saveTimer THEN timers - 1 ELSE timers
            /\ savePending' = FALSE
            /\ IF savePending
               THEN /\ diskWrites' = Append(diskWrites,
                           [by |-> "flush", data |-> Serialize(photos)])
                    /\ UNCHANGED exited
               ELSE /\ exited' = TRUE
                    /\ UNCHANGED diskWrites
       ELSE /\ exited' = TRUE
            /\ UNCHANGED <<saveTimer, savePending, timers, diskWrites>>
    /\ response' = NoResponse
    /\ UNCHANGED <<config, photos, activeUploads, files, disk, loader, post, del,
                   log, arrivals, history, removals, evictions, serials, subjects>>

\* variant: flushPendingSaves forgets the timer without clearing it
SignalKeepsTimer ==
    /\ ~exited
    /\ IF shuttingDown
       THEN UNCHANGED <<shuttingDown, saveTimer, savePending, timers, diskWrites, exited>>
       ELSE /\ shuttingDown' = TRUE
            /\ IF ENABLE_DISK_CACHE
               THEN /\ saveTimer' = FALSE
                    /\ timers' = timers
                    /\ savePending' = FALSE
                    /\ IF savePending
                       THEN /\ diskWrites' = Append(diskWrites,
                                   [by |-> "flush", data |-> Serialize(photos)])
                            /\ UNCHANGED exited
                       ELSE /\ exited' = TRUE
                            /\ UNCHANGED diskWrites
               ELSE /\ exited' = TRUE
                    /\ UNCHANGED <<saveTimer, savePending, timers, diskWrites>>
    /\ response' = IF shuttingDown THEN response ELSE NoResponse
    /\ UNCHANGED <<config, photos, activeUploads, files, disk, loader, post, del,
                   log, arrivals, history, removals, evictions, serials, subjects>>

\* lines 194-214: SIGINT or SIGTERM
Signal ==
    /\ ~exited
    /\ IF shuttingDown
       THEN UNCHANGED <<shuttingDown, saveTimer, savePending, timers, diskWrites, exited>>
       ELSE /\ shuttingDown' = TRUE
            /\ IF ENABLE_DISK_CACHE
               THEN /\ saveTimer' = FALSE
                    /\ timers' = IF saveTimer THEN timers - 1 ELSE timers
                    /\ savePending' = FALSE
                    /\ IF savePending
                       THEN /\ diskWrites' = Append(diskWrites,
                                   [by |-> "flush", data |-> Serialize(photos)])
                            /\ UNCHANGED exited
                       ELSE /\ exited' = TRUE
                            /\ UNCHANGED diskWrites
               ELSE /\ exited' = TRUE
                    /\ UNCHANGED <<saveTimer, savePending, timers, diskWrites>>
    /\ response' = IF shuttingDown THEN response ELSE NoResponse
    /\ UNCHANGED <<config, photos, activeUploads, files, disk, loader, post, del,
                   log, arrivals, history, removals, evictions, serials, subjects>>

-----------------------------------------------------------------------------

Next ==
    \/ LoadStart
    \/ \E writeOk \in BOOLEAN : LoadEntry(writeOk)
    \/ LoadTrim
    \/ \E photo \in Payloads : PostArrive(photo)
    \/ \E p \in PostSlots, outcome \in {"ok", "failed", "partial"} : PostWriteDone(p, outcome)
    \/ \E p \in PostSlots : PostTrimDone(p)
    \/ \E p \in PostSlots : PostCleanupDone(p)
    \/ \E id \in Ids : DeleteArrive(id)
    \/ \E d \in DelSlots : DeleteUnlinkDone(d)
    \/ TimerFire
    \/ \E i \in 1..Len(diskWrites), ok \in BOOLEAN : DiskWriteDone(i, ok)
    \/ Signal

Spec == Init /\ [][Next]_vars

SpecLong == InitLong /\ [][Next]_vars

\* one configuration, for the properties of progress
InitFair ==
    /\ MAX_PHOTO_HISTORY = 1
    /\ MAX_CONCURRENT_UPLOADS = 1
    /\ ENABLE_DISK_CACHE = TRUE
    /\ budget = MaxArrivals
    /\ disk = [ok |-> TRUE,
               entries |-> <<Stored("a", "jpg"), Stored("b", "png"), Stored("a", "png")>>]
    /\ Started

\* every file operation that a submission awaits completes, with success or with an
\* error: the write of line 271, the unlinks of trimPhotoHistory (line 285) and the
\* unlink of the finally block (line 299)
FileOperationsComplete ==
    \A p \in PostSlots :
        /\ WF_vars(\E outcome \in {"ok", "failed", "partial"} : PostWriteDone(p, outcome))
        /\ WF_vars(PostTrimDone(p))
        /\ WF_vars(PostCleanupDone(p))

SpecFair == InitFair /\ [][Next]_vars /\ FileOperationsComplete

-----------------------------------------------------------------------------
(* Records with their fields: creation, snapshot and reload as functions of the
   Ledger, with no handler suspended *)

Times == {100}
Randoms == {-2, 0}

\* caption, timestamp and rotation of a request body: all missing, all of the right
\* type, all of a wrong type, and a timestamp too large for a double
FieldChoices ==
    { <<JsUndefined, JsUndefined, JsUndefined>>,
      <<JsString("hi"), JsNumber(7), JsNumber(2)>>,
      <<JsNumber(1), JsString("x"), JsString("x")>>,
      <<JsString("hi"), JsInfinity, JsNumber(2)>> }

FullPayloads ==
    { FullEntry(Submission(id, image), f[1], f[2], f[3]) :
        id \in Ids \cup HostileIds, image \in {NoImage, PngUri}, f \in FieldChoices }

\* contents of photos.json found at start-up: none, a snapshot written by hand, and
\* a snapshot in the older inline-image layout
FullSnapshots ==
    { Absent,
      [ok |-> TRUE, entries |->
          <<FullEntry(Stored("a", "jpg"), JsUndefined, JsString("x"), JsUndefined),
            FullEntry(Entry(FALSE, "", NoFile, NoImage), JsUndefined, JsUndefined,
                      JsUndefined),
            FullEntry(Legacy("b", EmptyUri), JsString("hi"), JsNumber(7), JsNumber(2)),
            FullEntry(Stored("b", "png"), JsString("hi"), JsNumber(7), JsNumber(2))>>],
      [ok |-> TRUE, entries |->
          <<FullEntry(Legacy("a", PngUri), JsString("hi"), JsNumber(7), JsNumber(2)),
            FullEntry(Legacy("b", TextUri), JsUndefined, JsUndefined, JsUndefined)>>],
      [ok |-> TRUE, entries |->
          <<FullEntry(Legacy("a", PngUri), JsString("hi"), JsNumber(7), JsNumber(2)),
            FullEntry(Legacy("b", NotAString), JsString("hi"), JsNumber(7),
                      JsNumber(2))>>] }

\* lines 107-108 and 72: decodeBase64Image calls match on images[0], which throws a
\* TypeError when that element is not a string
Throws(entry) ==
    entry.idIsString /\ entry.storageFile = NoFile
        /\ entry.image.present /\ ~entry.image.isString

\* the place of the first entry on which normalizePhotoRecord throws, or 0
FirstThrow(entries) ==
    IF \E i \in 1..Len(entries) : Throws(entries[i])
    THEN CHOOSE i \in 1..Len(entries) :
             Throws(entries[i]) /\ \A j \in 1..(i - 1) : ~Throws(entries[j])
    ELSE 0

\* lines 107-110: the entry carries an inline image to be written to a file
Migrates(entry) ==
    entry.storageFile = NoFile /\ entry.image.present /\ entry.image.isString
        /\ decodeBase64Image(entry.image)

\* lines 111-112: the name of the file the inline image is written to
MigratedName(entry) == FileName(entry.id, Extension(entry.image.mime))

\* variant: a failed write makes the entry be dropped
normalizePhotoRecordOrDrop(entry, writeOk, now) ==
    IF ~entry.idIsString \/ (Migrates(entry) /\ ~writeOk) THEN <<>>
    ELSE LET fields == normalizedFields(entry, now)
             storageFile == IF Migrates(entry) THEN MigratedName(entry)
                            ELSE entry.storageFile
         IN <<FullRecord(entry.id, fields.caption, fields.timestamp, fields.rotation,
                         storageFile)>>

\* lines 102-132: no record, or one record; writeOk tells whether the write of the
\* inline image, if there is one, succeeds
normalizePhotoRecord(entry, writeOk, now) ==
    IF ~entry.idIsString THEN <<>>
    ELSE LET fields == normalizedFields(entry, now)
             storageFile == IF Migrates(entry)
                            THEN (IF writeOk THEN MigratedName(entry) ELSE NoFile)
                            ELSE entry.storageFile
         IN <<FullRecord(entry.id, fields.caption, fields.timestamp, fields.rotation,
                         storageFile)>>

\* lines 156-161: the loop over the entries; the writes of the entries at the places
\* in failing fail
normalizeAll(entries, failing, now) ==
    LET pushed[i \in 0..Len(entries)] ==
            IF i = 0 THEN <<>>
            ELSE pushed[i - 1] \o normalizePhotoRecord(entries[i], i \notin failing, now)
    IN pushed[Len(entries)]

\* line 114: the files written by the loop
MigratedFiles(entries, failing) ==
    {MigratedName(entries[i]) :
        i \in {j \in 1..Len(entries) :
                  entries[j].idIsString /\ Migrates(entries[j]) /\ j \notin failing}}

\* line 175: JSON.stringify(photos), as JSON.parse reads it back
stringify(ps) == [i \in 1..Len(ps) |-> stringifyRecord(ps[i])]

\* what GET /api/photos answers for the Ledger ps
Views(ps) == [i \in 1..Len(ps) |-> sanitizePhoto(storedPhoto(ps[i]))]

InitRecords ==
    /\ MAX_PHOTO_HISTORY = 2
    /\ MAX_CONCURRENT_UPLOADS = 1
    /\ ENABLE_DISK_CACHE = TRUE
    /\ budget = MaxArrivals
    /\ disk \in FullSnapshots
    /\ Started

RecordsFrame ==
    UNCHANGED <<config, activeUploads, saveTimer, savePending, shuttingDown, timers,
                diskWrites, post, del, exited, log, history, removals, evictions,
                serials, subjects>>

\* lines 144-163: loadPhotos, at start-up or on the snapshot just written
\* an exception in the loop is caught at line 165 and the Ledger is emptied (line 167)
LoadRecords(failing, now) ==
    /\ loader.pc \in {"start", "saved"}
    /\ failing \subseteq {i \in 1..Len(disk.entries) : Migrates(disk.entries[i])}
    /\ IF FirstThrow(disk.entries) # 0
       THEN /\ photos' = <<>>
            /\ files' = files \cup MigratedFiles(
                             SubSeq(disk.entries, 1, FirstThrow(disk.entries) - 1), failing)
       ELSE LET all == IF disk.ok THEN normalizeAll(disk.entries, failing, now) ELSE <<>>
            IN /\ photos' = TrimKept(all)
               /\ files' = (files \cup MigratedFiles(disk.entries, failing))
                               \ FilesOf(TrimRemoved(all))
    /\ loader' = [loader EXCEPT !.pc = "listening"]
    /\ response' = NoResponse
    /\ UNCHANGED <<disk, arrivals>>
    /\ RecordsFrame

\* lines 260-285 and 292: a submission whose image write, if any, succeeds
CreateRecord(incoming, now, random) ==
    /\ loader.pc = "listening"
    /\ arrivals < budget
    /\ arrivals' = arrivals + 1
    /\ LET name == IF incoming.image.present
                   THEN FileName(incoming.id, Extension(incoming.image.mime))
                   ELSE NoFile
           fields == createdFields(incoming, now, random)
           all == Unshift(photos, FullRecord(incoming.id, fields.caption,
                                             fields.timestamp, fields.rotation, name))
       IN /\ photos' = TrimKept(all)
          /\ files' = (files \cup ({name} \ {NoFile})) \ FilesOf(TrimRemoved(all))
          /\ response' = LogEntry("POST", incoming.id, 201, name)
    /\ UNCHANGED <<disk, loader>>
    /\ RecordsFrame

\* lines 172-175: savePhotosToDisk, the write succeeding
SaveRecords ==
    /\ loader.pc = "listening"
    /\ disk' = [ok |-> TRUE, entries |-> stringify(photos)]
    /\ loader' = [loader EXCEPT !.pc = "saved"]
    /\ response' = NoResponse
    /\ UNCHANGED <<photos, files, arrivals>>
    /\ RecordsFrame

NextRecords ==
    \/ \E failing \in SUBSET (1..Len(disk.entries)), now \in Times :
           LoadRecords(failing, now)
    \/ \E incoming \in FullPayloads, now \in Times, random \in Randoms :
           CreateRecord(incoming, now, random)
    \/ SaveRecords

SpecRecords == InitRecords /\ [][NextRecords]_vars

-----------------------------------------------------------------------------
(* Vocabulary of the properties *)

InFlight == {p \in PostSlots : post[p].pc # "idle"}

Quiescent == InFlight = {} /\ \A d \in DelSlots : del[d].pc = "idle"

NoDeletions == \A id \in Ids : removals[id] = 0

RECURSIVE Reverse(_)
Reverse(s) == IF s = <<>> THEN <<>> ELSE Append(Reverse(Tail(s)), Head(s))

IsNewPhoto(e) == e.type = "new_photo"

IsDeletePhoto(e) == e.type = "delete_photo"

\* the records announced by new_photo, in the order of the announcements
Announced ==
    LET news == SelectSeq(log, IsNewPhoto)
    IN [i \in 1..Len(news) |-> Record(news[i].id, news[i].file)]

DeleteEventsFor(id) ==
    Cardinality({i \in 1..Len(log) : IsDeletePhoto(log[i]) /\ log[i].id = id})

Unlinking(id) ==
    Cardinality({d \in DelSlots : del[d].pc = "unlinking" /\ del[d].id = id})

\* the step receives a submission
PostArrives == arrivals' = arrivals + 1 /\ del' = del /\ response'.type # "DELETE"

PostAnswers(status) == response'.type = "POST" /\ response'.status = status

DeleteAnswers(status) == response'.type = "DELETE" /\ response'.status = status

-----------------------------------------------------------------------------
(* C1..C10 *)

\* C1: whenever a request handler can run (the server listens, load-on-start is
\* over), the Ledger holds at most MAX_PHOTO_HISTORY records.
C1_LedgerWithinBound ==
    loader.pc = "listening" => Len(photos) <= MAX_PHOTO_HISTORY

\* an overflowing submission is suspended on the unlinks of what it evicted
C1_Witness ==
    /\ \E p \in PostSlots : post[p].pc = "trimming"
    /\ evictions > 0
    /\ Len(photos) = MAX_PHOTO_HISTORY

\* C2: no two records of the Ledger have the same id.
C2_UniqueIds ==
    \A i, j \in 1..Len(photos) : i # j => photos[i].id # photos[j].id

\* C3: the in-flight count stays within 0..MAX_CONCURRENT_UPLOADS, and a submission
\* that arrives while the count is at the limit is answered 429 in the same step,
\* takes no handler slot and leaves the count as it was.
C3_FailFastGate ==
    /\ [](activeUploads \in 0..MAX_CONCURRENT_UPLOADS)
    /\ [][(PostArrives /\ activeUploads >= MAX_CONCURRENT_UPLOADS)
            => (PostAnswers(429) /\ activeUploads' = activeUploads /\ post' = post)]_vars

C3_Witness ==
    /\ response.type = "POST" /\ response.status = 429
    /\ activeUploads = MAX_CONCURRENT_UPLOADS
    /\ Cardinality(InFlight) = MAX_CONCURRENT_UPLOADS

\* C4: the count moves only by +1 when a submission is admitted and stays suspended
\* and by -1 when a suspended submission leaves its finally block; a submission
\* that is admitted and answered (201, 400) in one step leaves the count as it
\* found it; with no submission in flight the count is 0.
C4_PermitReleasedOnce ==
    /\ [](InFlight = {} => activeUploads = 0)
    /\ [][LET admitted == {p \in PostSlots : post[p].pc = "idle" /\ post'[p].pc # "idle"}
              finished == {p \in PostSlots : post[p].pc # "idle" /\ post'[p].pc = "idle"}
          IN activeUploads' =
                 activeUploads + Cardinality(admitted) - Cardinality(finished)]_vars

\* a submission whose image write failed has been answered 500 and has released
C4_Witness ==
    /\ response.type = "POST" /\ response.status = 500
    /\ InFlight = {}
    /\ activeUploads = 0

\* C5: with a limit of 1 at most one submission holds the permit; one that arrives
\* while another holds it is answered 429, one that arrives after the release is not.
C5_LimitOneExcludes ==
    /\ [](MAX_CONCURRENT_UPLOADS = 1 => Cardinality(InFlight) <= 1)
    /\ [][(MAX_CONCURRENT_UPLOADS = 1 /\ PostArrives)
            => /\ InFlight # {} => (PostAnswers(429) /\ post' = post)
               /\ InFlight = {} => ~PostAnswers(429)]_vars

\* the second submission arrived while the first was in its finally-block cleanup
C5_Witness ==
    /\ MAX_CONCURRENT_UPLOADS = 1
    /\ \E p \in PostSlots : post[p].pc = "cleanup"
    /\ response.type = "POST" /\ response.status = 429

C7_EvictionSilentDeletionNot ==
    /\ [](\A id \in Ids : removals[id] = DeleteEventsFor(id) + Unlinking(id))
    /\ [][/\ evictions' > evictions
               => SelectSeq(log', IsDeletePhoto) = SelectSeq(log, IsDeletePhoto)
          /\ \A id \in Ids :
               (DeleteAnswers(200) /\ response'.id = id)
                  => log' = Append(log, LogEntry("delete_photo", id, 0, NoFile))]_vars

\* records were evicted, one was deleted explicitly, and only that one was announced
C7_Witness ==
    /\ evictions > 0
    /\ response.type = "DELETE" /\ response.status = 200
    /\ Len(SelectSeq(log, IsDeletePhoto)) = 1

\* C8: every file named by a record of the Ledger exists in the image store.
C8_NoDanglingFile ==
    \A i \in 1..Len(photos) :
        photos[i].storageFile # NoFile => photos[i].storageFile \in files

\* C9: when a submission with an image is answered 201, its image file exists.
C9_AcceptedImageExists ==
    [][(PostAnswers(201) /\ response'.file # NoFile) => response'.file \in files']_vars

\* C10: when a DELETE is answered 200, or a submission that evicted completes its
\* eviction, no file named by a record that the operation removed exists.
C10_DepartedFileRemoved ==
    [][/\ \A d \in DelSlots :
             (del[d].pc = "unlinking" /\ del'[d].pc = "idle")
                 => del[d].dropped \cap files' = {}
       /\ \A id \in Ids :
             (DeleteAnswers(200) /\ response'.id = id /\ del' = del)
                 => FilesOf(Matching(photos, id)) \cap files' = {}
       /\ \A p \in PostSlots :
             (post[p].pc = "trimming" /\ post'[p].pc # "trimming")
                 => post[p].removed \cap files' = {}]_vars

\* C11: for any one record, its new_photo event is emitted before any delete_photo
\* event for it, also when the DELETE runs while the POST that inserted the record
\* is suspended between the insertion and the emission
C11_NewBeforeDelete ==
    \A i, j \in 1..Len(log) :
        (/\ IsDeletePhoto(log[i])
         /\ IsNewPhoto(log[j])
         /\ subjects[j] \subseteq subjects[i]) => j < i

\* C12: a submission answered 429 or 400 has no effect: the Ledger, the image store,
\* savePending, saveTimer and the event stream are as before, and a 400 is given in the
\* step the submission arrives, before the handler has awaited any file operation
C12_RejectionHasNoEffect ==
    [][(PostAnswers(429) \/ PostAnswers(400)) =>
          /\ PostArrives
          /\ UNCHANGED <<photos, files, savePending, saveTimer, timers, log, activeUploads>>
          /\ \A p \in PostSlots : post'[p].pc \notin {"writing", "cleanup"} \/ post'[p] = post[p]
      ]_vars

\* a rejection for a validation error, given while the Ledger holds records and no save
\* is scheduled
C12_Witness ==
    /\ response.type = "POST"
    /\ response.status = 400
    /\ ENABLE_DISK_CACHE
    /\ photos # <<>>
    /\ ~savePending

\* the record at place n of history, counted from the oldest
Entered(n) == history[Len(history) + 1 - n]

\* C13: events are emitted one at a time and only for mutations that succeeded: a
\* new_photo event is emitted in the step that answers 201 to the submission of that id,
\* and it is about a record that was inserted into the Ledger; a delete_photo event is
\* emitted in the step that answers 200 to the deletion of that id, and it is about
\* records that the call removed; a step that answers with an error emits nothing
C13_EventsOnlyForSuccess ==
    [][/\ log' # log =>
            /\ Len(log') = Len(log) + 1
            /\ SubSeq(log', 1, Len(log)) = log
            /\ LET e == log'[Len(log')]
                   about == subjects'[Len(log')]
               IN \/ /\ IsNewPhoto(e)
                     /\ PostAnswers(201)
                     /\ response'.id = e.id
                     /\ \E n \in 1..Len(history') :
                            about = {n} /\ Entered(n)' = Record(e.id, e.file)
                  \/ /\ IsDeletePhoto(e)
                     /\ DeleteAnswers(200)
                     /\ response'.id = e.id
                     /\ about # {}
                     /\ \A n \in about :
                            /\ n \in 1..Len(history)
                            /\ Entered(n).id = e.id
                            /\ \A k \in 1..Len(photos') : serials'[k] # n
       /\ response'.status \in {400, 404, 429, 500} => log' = log
      ]_vars

\* a record has been announced and, later, its deletion has been announced
C13_Witness ==
    \E i, j \in 1..Len(log) :
        /\ i < j
        /\ IsNewPhoto(log[i])
        /\ IsDeletePhoto(log[j])
        /\ subjects[i] \subseteq subjects[j]

\* the submission that inserted the k-th record of the Ledger has been answered 201
Accepted(k) ==
    \E i \in 1..Len(log) : IsNewPhoto(log[i]) /\ subjects[i] = {serials[k]}

\* C14: once a DELETE of an id has been answered 200, the Ledger holds a record with
\* that id only if a later submission with that id has been accepted
C14_DeletedUntilAcceptedAgain ==
    \A j \in 1..Len(log) :
        IsDeletePhoto(log[j]) =>
            \A k \in 1..Len(photos) :
                photos[k].id = log[j].id =>
                    /\ \A n \in subjects[j] : n < serials[k]
                    /\ Accepted(k)

\* C14, the part on NotFound: a DELETE is answered 404 exactly when it arrives while
\* no record has its id, and that step leaves the Ledger, the image store, savePending,
\* saveTimer and the event stream as they were
C14_NotFoundHasNoEffect ==
    [][/\ DeleteAnswers(404) =>
            /\ ~HasId(photos, response'.id)
            /\ arrivals' = arrivals + 1
            /\ UNCHANGED <<photos, files, savePending, saveTimer, timers, log, del>>
       /\ (arrivals' = arrivals + 1 /\ ~PostArrives /\ ~DeleteAnswers(404)) =>
            \E id \in Ids : HasId(photos, id) /\ ~HasId(photos', id)
      ]_vars

\* what GET /api/photos answers in the current state (lines 240-242)
listPhotos == [i \in 1..Len(photos) |-> sanitizePhoto(storedPhoto(photos[i]))]

\* the payload of a new_photo event or of a 201 answer (lines 289-292)
publicPhoto(e) == sanitizePhoto(storedPhoto(Record(e.id, e.file)))

\* the views sent so far, or that a GET would send now, each with the name of the file
\* of its record
PublicViews ==
    {<<listPhotos[i], photos[i].storageFile>> : i \in 1..Len(photos)}
    \cup {<<publicPhoto(log[i]), log[i].file>> : i \in {j \in 1..Len(log) : IsNewPhoto(log[j])}}
    \cup (IF response.type = "POST" /\ response.status = 201
          THEN {<<publicPhoto(response), response.file>>} ELSE {})

\* C15: every view returned by listPhotos, returned with a 201 or emitted as new_photo
\* has exactly the fields of sanitizePhoto, so no storageFile, and its imageUrl is
\* undefined or the file name under the URL prefix, never the file name alone and
\* never the path of the file
C15_PublicViewSanitized ==
    \A v \in PublicViews :
        LET view == v[1]
            file == v[2]
        IN /\ DOMAIN view = {"id", "caption", "timestamp", "rotation", "imageUrl", "images"}
           /\ view.images = <<>>
           /\ IF file = NoFile
              THEN view.imageUrl = Undefined
              ELSE /\ view.imageUrl = buildImageUrl(file)
                   /\ Head(view.imageUrl) = UPLOAD_URL_BASE
                   /\ view.imageUrl \notin {file, fullImagePath(file)}

\* a record with an image file is listed, and a record with an image file has just
\* been accepted and announced
C15_Witness ==
    /\ \E i \in 1..Len(photos) : photos[i].storageFile # NoFile
    /\ response.type = "POST" /\ response.status = 201 /\ response.file # NoFile
    /\ \E i \in 1..Len(log) : IsNewPhoto(log[i]) /\ log[i].file # NoFile

\* the step is a mutation: an accepted submission or a deletion (each emits its event
\* in the step that calls scheduleSave)
Mutation == log' # log

\* the step starts a snapshot write
WriteStarts == Len(diskWrites') > Len(diskWrites)

\* the step is the firing of the debounce timer
TimerFires == timers' = timers - 1 /\ shuttingDown' = shuttingDown

\* C16: with persistence enabled, the mutations that occur before the timer armed by
\* the first of them fires share that one timer and start no write themselves; the
\* firing starts exactly one write, of the Ledger as it then is, and clears
\* savePending, so that nothing more is written until the next mutation, which arms a
\* new timer and so leads to a second write
C16_OneWritePerBurst ==
    [][ENABLE_DISK_CACHE =>
          /\ Mutation =>
                /\ savePending' /\ saveTimer' /\ timers' = 1
                /\ timers' = (IF saveTimer THEN timers ELSE timers + 1)
                /\ ~WriteStarts
          /\ TimerFires =>
                /\ savePending /\ saveTimer
                /\ diskWrites' = Append(diskWrites,
                                        [by |-> "timer", data |-> Serialize(photos)])
          /\ WriteStarts =>
                /\ Len(diskWrites') = Len(diskWrites) + 1
                /\ savePending /\ ~savePending' /\ ~saveTimer' /\ timers' = 0
                /\ ~Mutation
      ]_vars

\* a mutation, the firing of its timer, then another mutation and the firing of its
\* timer: two writes have been started, the first with one record less than the second
C16_Witness ==
    /\ Len(diskWrites) = 2
    /\ diskWrites[1].by = "timer"
    /\ diskWrites[2].by = "timer"
    /\ Len(diskWrites[2].data) = Len(diskWrites[1].data) + 1
    /\ ~savePending

\* C17: at most one debounce timer is scheduled and not yet fired or cleared, and
\* saveTimer is set exactly when there is one
C17_OneTimer ==
    /\ timers <= 1
    /\ saveTimer <=> timers = 1

\* two mutations have been made, one timer is outstanding and no snapshot has been
\* written
C17_Witness ==
    /\ timers = 1
    /\ Len(log) = 2
    /\ Len(diskWrites) = 0
    /\ disk = Absent
    /\ ~shuttingDown

\* the step is the first termination signal: gracefulShutdown runs up to the await
\* inside flushPendingSaves, or up to process.exit
Flushes == shuttingDown' /\ ~shuttingDown

\* C18: with persistence enabled, flushPendingSaves leaves no timer and no pending
\* save, and starts one write exactly if a save was pending; savePending is cleared
\* only by the step that starts the one write for it, by the timer or by the flush; and
\* a timer or a pending save appears again only by a new mutation
C18_FlushRaceFree ==
    [][ENABLE_DISK_CACHE =>
          /\ Flushes =>
                /\ timers' = 0 /\ ~saveTimer' /\ ~savePending'
                /\ diskWrites' = (IF savePending
                                  THEN Append(diskWrites,
                                              [by |-> "flush", data |-> Serialize(photos)])
                                  ELSE diskWrites)
          /\ (savePending /\ ~savePending') =>
                /\ Len(diskWrites') = Len(diskWrites) + 1
                /\ diskWrites'[Len(diskWrites')].by = (IF Flushes THEN "flush" ELSE "timer")
          /\ WriteStarts => savePending /\ ~savePending'
          /\ (timers' > timers \/ (savePending' /\ ~savePending)) => Mutation
      ]_vars

\* the flush has found a timer outstanding and a save pending: the timer is gone and
\* the write of the flush is in flight
C18_Witness ==
    /\ shuttingDown
    /\ ~exited
    /\ timers = 0
    /\ ~savePending
    /\ \E i \in 1..Len(diskWrites) : diskWrites[i].by = "flush"
    /\ log # <<>>

\* C19: between the setting of shuttingDown and the end of the process, a request that
\* arrives leaves the Ledger, the image store, savePending, saveTimer and the timers as
\* they were
C19_NoMutationWhileShuttingDown ==
    [][(shuttingDown /\ ~exited /\ arrivals' = arrivals + 1) =>
          UNCHANGED <<photos, files, savePending, saveTimer, timers>>
      ]_vars

\* C20: with persistence enabled, when gracefulShutdown has ended a process that was
\* in service, no save is pending, no snapshot write is in flight, and the snapshot on
\* disk holds exactly the records of the Ledger, in order
C20_SnapshotReflectsLedgerAtExit ==
    (ENABLE_DISK_CACHE /\ exited /\ loader.pc = "listening") =>
        /\ ~savePending
        /\ diskWrites = <<>>
        /\ disk.entries = Serialize(photos)

-----------------------------------------------------------------------------
(* C21..C30 *)

\* the step starts the write of flushPendingSaves
FlushWriteStarts ==
    /\ WriteStarts
    /\ diskWrites'[Len(diskWrites')].by = "flush"

\* C21: shuttingDown, once set, stays set, and the flush is performed by the first
\* signal only: while shuttingDown is set no step starts a flush write, ends the
\* process without a write of the flush completing, or takes a timer or a pending
\* save away other than by the firing of that timer
C21_ShutdownIdempotent ==
    [][/\ shuttingDown => shuttingDown'
       /\ FlushWriteStarts => Flushes
       /\ (shuttingDown /\ ~exited) =>
             /\ exited' =>
                   \E i \in 1..Len(diskWrites) :
                       diskWrites[i].by = "flush" /\ diskWrites' = RemoveAt(diskWrites, i)
             /\ (timers' < timers \/ (savePending /\ ~savePending')) =>
                   diskWrites' = Append(diskWrites,
                                        [by |-> "timer", data |-> Serialize(photos)])
      ]_vars

\* the first signal has been handled and its flush write is in flight, while a save
\* is pending and a timer outstanding again: a second signal would find work to do
C21_Witness ==
    /\ shuttingDown
    /\ ~exited
    /\ savePending
    /\ timers = 1
    /\ \E i \in 1..Len(diskWrites) : diskWrites[i].by = "flush"

\* the step is loadPhotos run on the snapshot that was just written from the Ledger
Reloads == loader.pc = "saved" /\ loader'.pc = "listening"

\* the id, caption, timestamp and imageUrl of each view
Observable(views) ==
    [i \in 1..Len(views) |->
        [id |-> views[i].id, caption |-> views[i].caption,
         timestamp |-> views[i].timestamp, imageUrl |-> views[i].imageUrl]]

\* C22: saving the Ledger and loading the written snapshot gives a Ledger whose views
\* are, record by record and in order, equal to those before in id, caption, timestamp
\* and imageUrl
C22_SnapshotRoundTrip ==
    [][Reloads => Observable(Views(photos')) = Observable(Views(photos))]_vars

\* the step is a run of loadPhotos
Loads == loader.pc \in {"start", "saved"} /\ loader'.pc = "listening"

\* the entries of the snapshot that have a string id, in order
ValidEntries == SelectSeq(disk.entries, LAMBDA e : e.idIsString)

\* C23: after a load, a record kept from an entry with no storageFile and a decodable
\* inline image has the storageFile <id>.png for the mime image/png and <id>.jpg for
\* any other, exactly when that file has been written, and it has none otherwise; a
\* record from an entry with a storageFile has that storageFile, and nothing is written
\* for such an entry
C23_LegacyMigration ==
    [][Loads =>
          /\ Len(photos') <= Len(ValidEntries)
          /\ \A k \in 1..Len(photos') :
                LET e == ValidEntries[k]
                    r == photos'[k]
                    name == <<e.id, IF e.image.mime = "image/png" THEN "png" ELSE "jpg">>
                IN /\ r.id = e.id
                   /\ e.storageFile # NoFile => r.storageFile = e.storageFile
                   /\ (e.storageFile = NoFile /\ e.image.present /\ e.image.wellFormed) =>
                         /\ r.storageFile \in {name, NoFile}
                         /\ r.storageFile = name <=> name \in files'
                   /\ (e.storageFile = NoFile /\ ~(e.image.present /\ e.image.wellFormed)) =>
                         r.storageFile = NoFile
          /\ \A f \in files' \ files :
                \E k \in 1..Len(ValidEntries) :
                    /\ ValidEntries[k].storageFile = NoFile
                    /\ ValidEntries[k].image.present
                    /\ f[1] = ValidEntries[k].id
      ]_vars

\* the older snapshot has been loaded with both writes succeeding: the PNG is stored
\* as a.png and the image of another type as b.jpg
C23_Witness ==
    /\ loader.pc = "listening"
    /\ arrivals = 0
    /\ Len(photos) = 2
    /\ photos[1].storageFile = <<"a", "png">>
    /\ photos[2].storageFile = <<"b", "jpg">>
    /\ {<<"a", "png">>, <<"b", "jpg">>} \subseteq files
    /\ disk.entries[1].storageFile = NoFile

\* C28: a load of a readable snapshot whose inline images are strings gives one record
\* for each entry with a string id, up to the bound and in order, whichever writes of
\* inline images fail; a record whose inline image could not be written has no
\* storageFile and no imageUrl
C28_BestEffortMigration ==
    [][(Loads /\ disk.ok /\ FirstThrow(disk.entries) = 0) =>
          /\ Len(photos') = Min(Len(ValidEntries), MAX_PHOTO_HISTORY)
          /\ \A k \in 1..Len(photos') :
                LET e == ValidEntries[k]
                    r == photos'[k]
                IN /\ r.id = e.id
                   /\ (Migrates(e) /\ MigratedName(e) \notin files') =>
                         /\ r.storageFile = NoFile
                         /\ sanitizePhoto(storedPhoto(r)).imageUrl = Undefined
      ]_vars

\* the older snapshot has been loaded, the write of the first image failing and the
\* write of the second succeeding
C28_Witness ==
    /\ loader.pc = "listening"
    /\ arrivals = 0
    /\ Len(photos) = 2
    /\ photos[1].storageFile = NoFile
    /\ photos[2].storageFile = <<"b", "jpg">>
    /\ files = {<<"b", "jpg">>}
    /\ Migrates(disk.entries[1])

\* the records that loadPhotos pushes before it trims: one for each entry with a
\* string id
Pushed == [k \in 1..Len(ValidEntries) |-> ValidEntries[k].id]

\* C24: with persistence enabled, a load of an absent or unreadable snapshot gives an
\* empty Ledger; a load of any other snapshot gives the records of the entries with a
\* string id, in order, cut to the first MAX_PHOTO_HISTORY, and the files of the
\* records cut off are no longer in the image store
C24_LoadOnStart ==
    [][(Loads /\ ENABLE_DISK_CACHE) =>
          IF ~disk.ok
          THEN photos' = <<>>
          ELSE /\ Len(photos') = Min(Len(Pushed), MAX_PHOTO_HISTORY)
               /\ \A k \in 1..Len(photos') : photos'[k].id = Pushed[k]
               /\ \A k \in (Len(photos') + 1)..Len(ValidEntries) :
                     LET e == ValidEntries[k]
                     IN /\ e.storageFile \in files => e.storageFile \notin files'
                        /\ Migrates(e) => MigratedName(e) \notin files'
      ]_vars

\* C25: with persistence disabled, no entry of the snapshot is ever read, the Ledger
\* holds only records that were submitted, the snapshot file keeps its contents, no
\* write of it is ever started, no save timer is ever armed and savePending is never
\* set
C25_DisabledModeInert ==
    ~ENABLE_DISK_CACHE =>
        /\ loader.pc # "entries" /\ loader.entries = <<>>
        /\ Len(history) <= arrivals
        /\ disk \in Snapshots
        /\ diskWrites = <<>>
        /\ ~saveTimer /\ timers = 0
        /\ ~savePending

\* persistence is disabled, a snapshot file with records exists, and the server has
\* accepted one submission and one deletion and has been told to shut down
C25_Witness ==
    /\ ~ENABLE_DISK_CACHE
    /\ disk.ok /\ disk.entries # <<>>
    /\ \E i, j \in 1..Len(log) : log[i].type = "new_photo" /\ log[j].type = "delete_photo"
    /\ shuttingDown

\* the step ends a snapshot write and leaves the snapshot file as it was, as a
\* write that fails does
WriteFails == Len(diskWrites') < Len(diskWrites) /\ disk' = disk

\* C26: when a snapshot write ends without changing the file, a mutation has been
\* announced before, and the step changes neither the Ledger nor the events emitted
\* nor the image store nor any request being served, answers nobody, and ends the
\* process only if the write was the one of the shutdown
C26_WriteFailureKeepsMutation ==
    [][WriteFails =>
          /\ log # <<>>
          /\ UNCHANGED <<photos, log, files, post, del, activeUploads, loader>>
          /\ response' = NoResponse
          /\ (\A i \in 1..Len(diskWrites) : diskWrites[i].by = "timer") => ~exited'
      ]_vars

\* one record has been submitted and announced and is in the Ledger, the one write
\* scheduled for it has ended, and the snapshot file does not hold the record: the
\* write failed
C26_Witness ==
    /\ ENABLE_DISK_CACHE /\ ~exited /\ ~shuttingDown
    /\ Len(log) = 1 /\ log[1].type = "new_photo" /\ HasId(photos, log[1].id)
    /\ ~savePending /\ timers = 0 /\ diskWrites = <<>>
    /\ disk.entries # Serialize(photos)

\* the step is the failure of the image write of the submission in slot p: the
\* handler leaves line 271 and no record enters the history
ImageWriteFails(p) ==
    post[p].pc = "writing" /\ post'[p].pc # "writing" /\ history' = history

\* the step is the end of the clean-up of the submission in slot p
CleanupEnds(p) == post[p].pc = "cleanup" /\ post'[p].pc # "cleanup"

\* C27: when the image write of an admitted submission fails, the answer is 500, the
\* Ledger, the events and the save state stay as they were, and either a record
\* references the file and the permit is given back at once, or the handler goes on
\* to unlink the file; when that unlink ends the file is gone and the permit is given
\* back, with the Ledger, the events and the save state again as they were
C27_FailedImageWrite ==
    [][\A p \in PostSlots :
          /\ ImageWriteFails(p) =>
                /\ response' = LogEntry("POST", post[p].id, 500, NoFile)
                /\ UNCHANGED <<photos, log, savePending, saveTimer, timers, diskWrites>>
                /\ IF Referenced(photos, post[p].storageFileName)
                   THEN post'[p] = IdlePost /\ activeUploads' = activeUploads - 1
                   ELSE /\ post'[p].pc = "cleanup"
                        /\ post'[p].storageFileName = post[p].storageFileName
                        /\ activeUploads' = activeUploads
          /\ CleanupEnds(p) =>
                /\ post[p].storageFileName \notin files'
                /\ post'[p] = IdlePost /\ activeUploads' = activeUploads - 1
                /\ UNCHANGED <<photos, log, savePending, saveTimer, timers, diskWrites>>
      ]_vars

\* the image write of a submission has just failed and been answered 500 after
\* leaving a part of the file, which no record references and which the handler is
\* about to unlink, still holding the permit
C27_Witness ==
    /\ response.status = 500
    /\ \E p \in PostSlots :
          /\ post[p].pc = "cleanup" /\ post[p].id = response.id
          /\ post[p].storageFileName \in files
          /\ ~Referenced(photos, post[p].storageFileName)
    /\ activeUploads > 0

\* the step creates a record from a submission
Creates == arrivals' = arrivals + 1

\* the fields of record r are those of source with the defaults of the data model: a
\* caption that is not a string becomes the empty string, a timestamp that is not a
\* number becomes the time of the server, a rotation that is not a number becomes 0
Defaulted(r, source) ==
    /\ r.caption = IF source.caption.type = "string" THEN source.caption
                   ELSE JsString("")
    /\ IF source.timestamp.type = "number" THEN r.timestamp = source.timestamp
       ELSE \E now \in Times : r.timestamp = JsNumber(now)
    /\ r.rotation = IF source.rotation.type = "number" THEN source.rotation
                    ELSE JsNumber(0)

\* C29: the record created from a submission, whichever submission gave it, and the
\* record made of each snapshot entry by a load, have the caption, timestamp and
\* rotation of their source with the same defaults: the empty string, the time of the
\* server and 0
C29_SameDefaults ==
    [][/\ Creates =>
            \A incoming \in FullPayloads, now \in Times, random \in Randoms :
                LET fields == createdFields(incoming, now, random)
                IN (/\ photos'[1].id = incoming.id
                    /\ photos'[1].caption = fields.caption
                    /\ photos'[1].timestamp = fields.timestamp
                    /\ photos'[1].rotation = fields.rotation)
                   => Defaulted(photos'[1], incoming)
       /\ (Loads /\ disk.ok /\ FirstThrow(disk.entries) = 0) =>
            \A k \in 1..Len(photos') : Defaulted(photos'[k], ValidEntries[k])
      ]_vars

\* the path lies under UPLOAD_DIR
Inside(path) ==
    Len(path) > Len(UPLOAD_DIR) /\ SubSeq(path, 1, Len(UPLOAD_DIR)) = UPLOAD_DIR

\* C30: every file that a step writes into the image store or unlinks from it has a
\* path under UPLOAD_DIR
C30_PathsInsideUploadDir ==
    [][\A fileName \in (files' \ files) \cup (files \ files') :
          Inside(fullImagePath(fileName))]_vars

-----------------------------------------------------------------------------
(* C31..C39 *)

\* no save is pending, no timer is armed and no snapshot write is in flight
Settled == ~savePending /\ ~saveTimer /\ timers = 0 /\ diskWrites = <<>>

\* C31: with persistence enabled and no shutdown, when a snapshot write ends by
\* changing the file and leaves the server quiescent with no save pending, no timer
\* armed and no other write in flight, the snapshot file holds exactly the records of
\* the Ledger, in order
C31_EventualDurability ==
    [][(/\ ENABLE_DISK_CACHE /\ ~shuttingDown' /\ ~exited'
        /\ Len(diskWrites') < Len(diskWrites) /\ disk' # disk
        /\ Quiescent' /\ Settled')
       => disk'.entries = Serialize(photos')
      ]_vars

\* C33: at most one write of the snapshot file is in flight
C33_WritesNeverOverlap == Len(diskWrites) <= 1

\* C32: with persistence enabled, savePending is set exactly when the timer handle
\* is held, and whenever a timeout is outstanding a save is pending, so that the
\* callback always finds savePending set
C32_PendingIffTimer ==
    ENABLE_DISK_CACHE =>
        /\ savePending <=> saveTimer
        /\ timers > 0 => savePending

\* a timer has fired and started its write, and a later mutation has set savePending
\* and armed a timer again
C32_Witness ==
    /\ ENABLE_DISK_CACHE
    /\ diskWrites # <<>>
    /\ savePending /\ saveTimer /\ timers = 1

\* C34: when a step emits new_photo for a record, answering 201, the record is in
\* the Ledger after the step
C34_AnnouncedRecordIsLive ==
    [][(Len(log') > Len(log) /\ log'[Len(log')].type = "new_photo") =>
          /\ PostAnswers(201)
          /\ \A n \in subjects'[Len(log')] :
                \E k \in 1..Len(photos') : serials'[k] = n
      ]_vars

\* the ids held by a viewer that has received the events es from the first one on,
\* adding the id of a new_photo and removing the id of a delete_photo
RECURSIVE Viewer(_)
Viewer(es) ==
    IF es = <<>> THEN {}
    ELSE LET e == es[Len(es)]
             before == Viewer(SubSeq(es, 1, Len(es) - 1))
         IN IF IsNewPhoto(e) THEN before \cup {e.id}
            ELSE IF IsDeletePhoto(e) THEN before \ {e.id}
            ELSE before

\* the record at place k of the Ledger has been announced by a new_photo event
WasAnnounced(k) == \E j \in 1..Len(log) : IsNewPhoto(log[j]) /\ serials[k] \in subjects[j]

\* C35: when no submission and no deletion is in flight, the viewer holds the id of
\* every record of the Ledger that has been announced
C35_ViewerSeesLedger ==
    Quiescent => \A k \in 1..Len(photos) : WasAnnounced(k) => photos[k].id \in Viewer(log)

\* the files of an earlier run that this run has not loaded: with persistence
\* disabled, those named by the snapshot file, which is never read nor written
Unloaded == IF ENABLE_DISK_CACHE THEN {} ELSE EntryFiles(disk.entries)

\* C36: when the server listens and no submission and no deletion is in flight,
\* every file of the image store, but for the files of an earlier run that were not
\* loaded, is the storageFile of a record of the Ledger
C36_NoOrphanedFiles ==
    (Listening /\ Quiescent) => (files \ Unloaded) \subseteq FilesOf(photos)

\* the step receives a deletion of id
DeleteArrives(id) ==
    /\ arrivals' = arrivals + 1
    /\ \/ response'.type = "DELETE" /\ response'.id = id
       \/ \E d \in DelSlots : del'[d] # del[d] /\ del'[d].id = id

\* C37: the records that a deletion suspended on its unlink has removed are not in
\* the Ledger, and no record is the subject of two delete_photo events; a deletion
\* of the same id that arrives meanwhile is answered 404 at once, with no event and
\* no change of the Ledger, unless a record with that id has been submitted since,
\* and then it removes none of the records of the suspended one
C37_OverlappingDeletes ==
    /\ [](\A d \in DelSlots : del[d].pc = "unlinking" =>
              \A k \in 1..Len(photos) : serials[k] \notin del[d].gone)
    /\ [](\A i, j \in 1..Len(log) :
              (i # j /\ IsDeletePhoto(log[i]) /\ IsDeletePhoto(log[j]))
                  => subjects[i] \cap subjects[j] = {})
    /\ [][\A id \in Ids : \A d \in DelSlots :
              (del[d].pc = "unlinking" /\ del[d].id = id /\ DeleteArrives(id)) =>
                  IF HasId(photos, id)
                  THEN SerialsGone(photos, serials, id) \cap del[d].gone = {}
                  ELSE /\ DeleteAnswers(404)
                       /\ UNCHANGED <<photos, log, del, savePending, saveTimer>>
         ]_vars

\* a deletion of an id has been answered 404 while another deletion of that id, which
\* removed the record, is suspended on its unlink and has not been answered yet
C37_Witness ==
    /\ response.type = "DELETE" /\ response.status = 404
    /\ \E d \in DelSlots :
          del[d].pc = "unlinking" /\ del[d].id = response.id /\ del[d].gone # {}
    /\ removals[response.id] = 1 /\ DeleteEventsFor(response.id) = 0

\* C38: activeUploads is the number of submissions that have been admitted and have
\* not left their finally block; so the count is at least 1 whenever one of them
\* gives its permit back, and the clamp at 0 does not act
C38_CountIsHandlersInFlight == activeUploads = Cardinality(InFlight)

\* two admitted submissions are suspended, one on its image write and one in the
\* clean-up of its finally block, and the count is 2
C38_Witness ==
    /\ activeUploads = 2
    /\ \E p, q \in PostSlots : post[p].pc = "writing" /\ post[q].pc = "cleanup"

\* C39: as long as the process runs, every admitted submission that is suspended
\* eventually leaves its finally block, the permit is eventually free again, and
\* once submissions have stopped arriving activeUploads is 0 for good
C39_PermitsEventuallyReleased ==
    /\ \A p \in PostSlots : (post[p].pc # "idle") ~> (post[p].pc = "idle" \/ exited)
    /\ Busy ~> (~Busy \/ exited)
    /\ <>[](activeUploads = 0 \/ exited)

\* a submission that was suspended on its image write has been answered 201, no
\* submission is in flight any more and the count is 0
C39_Witness ==
    /\ response.type = "POST" /\ response.status = 201 /\ response.file # NoFile
    /\ InFlight = {}
    /\ activeUploads = 0

=============================================================================
